---- MODULE Spec2Model ----
(***************************************************************************)
(* Function-dependency subsystem of the MeTTa AI assistant backend:        *)
(*   - the query-time dependency expander                                  *)
(*       (app/rag/generator/rag_generator.py, RAGGenerator)                *)
(*   - the batch dependency resolver                                       *)
(*       (app/services/dependency_resolver.py)                             *)
(*   - the call/definition extractor                                       *)
(*       (app/core/chunker/function_analyzer.py)                           *)
(* The chunk store helpers (app.db.db) and the syntax tree parser          *)
(* (metta_ast_parser) are collaborators whose code is not part of the      *)
(* sources at hand; they are modelled from their documented contracts.     *)
(***************************************************************************)
EXTENDS Integers, Sequences, FiniteSets, TLC

VARIABLES
    store,              \* the chunks collection, in natural (insertion) order
    mongo_db,           \* RAGGenerator.mongo_db: TRUE iff a store handle is set
    via_chat,           \* TRUE iff ChatService.generate_response built the generator
    gpc,                \* position of generate_response / _expand_dependencies
    via_generate,       \* TRUE iff _expand_dependencies was entered from generate_response
    retrieved,          \* the code documents as the retriever returned them
    docs_by_category,   \* the category-partitioned result set
    max_depth,          \* argument of _expand_dependencies
    processed_docs,     \* dict chunk id -> Document, in insertion order
    ids_to_check,       \* the frontier
    current_depth,      \* rounds completed
    fetch_log,          \* history: the id lists handed to get_chunks, one per query
    context,            \* the texts of the assembled context
    code,               \* extractor: the source text handed to the extractors
    analyzed,           \* extractor: which of the two extractors have returned
    function_calls,     \* extractor: result of extract_function_calls
    definitions,        \* extractor: result of extract_function_definitions
    rpc,                \* resolver: position of add_function_dependencies
    run,                \* resolver: number of runs started
    force,              \* resolver: argument force
    batch_size,         \* resolver: argument batch_size
    total_chunks,       \* resolver: count_documents(filter_query) at the start
    skip,               \* resolver: paging offset
    chunks,             \* resolver: the current page, as read
    pos,                \* resolver: index in the page of the next chunk
    stats,              \* resolver: the three counters
    initial_match,      \* history: chunkIds matching the selection at the start of the run
    start_functions,    \* history: the functions values stored when the run started
    pages_log,          \* history: the chunkIds of the pages read in this run
    run_log,            \* history: one entry per chunk examined in this run
    resolving,          \* scoped lookup: the chunk last resolved on its own
    dependency_ids,     \* scoped lookup: what resolve_chunk_dependencies returned
    second              \* a second add_function_dependencies call on the same store: its locals

expVars == <<mongo_db, via_chat, gpc, via_generate, retrieved, docs_by_category, max_depth,
             processed_docs, ids_to_check, current_depth, fetch_log, context>>

anaVars == <<code, analyzed, function_calls, definitions>>

resVars == <<rpc, run, force, batch_size, total_chunks, skip, chunks, pos, stats,
             initial_match, start_functions, pages_log, run_log>>

scopeVars == <<resolving, dependency_ids>>

conVars == <<second>>

vars == <<store, expVars, anaVars, resVars, scopeVars, conVars>>

(***************************************************************************)
(* Bounds                                                                  *)
(***************************************************************************)
MaxDepth == 3           \* max_depth is drawn from 0..MaxDepth
MaxSeeds == 2           \* at most this many retrieved code documents
MaxTextLen == 6         \* the extractors see every token sequence up to this length
MaxBatch == 2           \* batch_size is drawn from 1..MaxBatch and the default
MaxRuns == 2            \* resolver runs in succession

(***************************************************************************)
(* Values                                                                  *)
(***************************************************************************)
None == "None"          \* Python's None / a missing metadata key

StoredIds == <<"A", "B", "C">>          \* chunkIds held by the store, in store order
GhostId == "D"                          \* a chunkId no stored chunk carries
AllIds == {StoredIds[i] : i \in 1..Len(StoredIds)} \cup {GhostId}

Range(s) == {s[i] : i \in 1..Len(s)}

\* the `functions` field of a stored chunk: missing, null, or a list of ids
FnAbsent == [kind |-> "absent", ids |-> <<>>]
FnNull == [kind |-> "null", ids |-> <<>>]
FnList(s) == [kind |-> "list", ids |-> s]

\* dict.get("functions", []): the default applies to a missing key only
GetFunctions(c) == IF c.functions.kind = "absent" THEN FnList(<<>>) ELSE c.functions

\* all orderings of a finite set (list(set) has no specified order)
Orderings(S) ==
    {s \in [1..Cardinality(S) -> S] : \A i, j \in 1..Cardinality(S) : s[i] = s[j] => i = j}

(***************************************************************************)
(* Chunk store (app.db.db)                                                 *)
(***************************************************************************)
\* get_chunks(filter {"chunkId": {"$in": ids}}, limit): the stored chunks
\* whose chunkId is listed, each once, in store order, at most `limit`
GetChunksByIds(st, ids, limit) ==
    LET Match(c) == c.chunkId \in Range(ids)
        found == SelectSeq(st, Match)
    IN  IF Len(found) <= limit THEN found ELSE SubSeq(found, 1, limit)

(***************************************************************************)
(* Syntax tree parser (metta_ast_parser.parse)                             *)
(* A source text is a sequence of tokens.  Parenthesised forms become      *)
(* group nodes: a group headed by "=" is a RuleGroup whose children are    *)
(* the head and the body, a group prefixed by "!" is a CallGroup, any      *)
(* other group is an ExpressionGroup.  Identifiers and variables are       *)
(* WordToken leaves, numbers are Literal leaves.  Unbalanced parentheses   *)
(* are a parse error.                                                      *)
(***************************************************************************)
VariableWords == {"$x", "$n", "$f"}     \* the words that start with the sigil "$"
LiteralWords == {"1", "2"}

SyntaxNode(type, text, subs) == [node_type |-> type, parsed_text |-> text, sub_nodes |-> subs]

LeafNode(tok) ==
    IF tok \in LiteralWords THEN SyntaxNode("Literal", tok, <<>>)
    ELSE SyntaxNode("WordToken", tok, <<>>)

GroupNode(children, banged) ==
    IF banged THEN SyntaxNode("CallGroup", "", children)
    ELSE IF children # <<>> /\ children[1] = SyntaxNode("WordToken", "=", <<>>)
         THEN SyntaxNode("RuleGroup", "", Tail(children))
         ELSE SyntaxNode("ExpressionGroup", "", children)

ParseError == [ok |-> FALSE, nodes |-> <<>>, pos |-> 0]

\* parse the items from position i up to the closing parenthesis of the
\* enclosing group (depth > 0) or the end of the text (depth = 0)
RECURSIVE ParseItems(_, _, _)
ParseItems(toks, i, depth) ==
    IF i > Len(toks)
    THEN IF depth = 0 THEN [ok |-> TRUE, nodes |-> <<>>, pos |-> i] ELSE ParseError
    ELSE IF toks[i] = ")"
    THEN IF depth = 0 THEN ParseError ELSE [ok |-> TRUE, nodes |-> <<>>, pos |-> i + 1]
    ELSE LET banged == toks[i] = "!" /\ i < Len(toks) /\ toks[i + 1] = "("
             open == IF banged THEN i + 1 ELSE i
         IN  IF toks[open] = "("
             THEN LET inner == ParseItems(toks, open + 1, depth + 1)
                  IN  IF ~inner.ok THEN ParseError
                      ELSE LET rest == ParseItems(toks, inner.pos, depth)
                           IN  IF ~rest.ok THEN ParseError
                               ELSE [ok |-> TRUE,
                                     nodes |-> <<GroupNode(inner.nodes, banged)>> \o rest.nodes,
                                     pos |-> rest.pos]
             ELSE LET rest == ParseItems(toks, i + 1, depth)
                  IN  IF ~rest.ok THEN ParseError
                      ELSE [ok |-> TRUE,
                            nodes |-> <<LeafNode(toks[i])>> \o rest.nodes,
                            pos |-> rest.pos]

Parse(text) == ParseItems(text, 1, 0)

(***************************************************************************)
(* Call/definition extractor (function_analyzer.py)                        *)
(***************************************************************************)
BUILTIN_FUNCTIONS ==
    {"match", "case", "if", "let", "let*", "chain",
     "+", "-", "*", "/", "mod", "//",
     "==", "!=", "<", ">", "<=", ">=",
     "and", "or", "not",
     "car", "cdr", "cons", "collapse", "superpose",
     "get-type", "get-metatype",
     "add-atom", "remove-atom", "get-atoms",
     "import!", "bind!", "pragma!", "assertEqual",
     "empty", "Error", "True", "False",
     "filter", "map", "foldl", "foldr", "zip", "unify"}

\* a membership test that knows no built-in
is_builtin_function_never(func_name) == FALSE

is_builtin_function(func_name) == func_name \in BUILTIN_FUNCTIONS

\* func_name.startswith("$")
StartsWithSigil(func_name) == func_name \in VariableWords

\* lines 61-67: the first WordToken among the children, recorded unless it
\* is empty or starts with the sigil
HeadNames(subs) ==
    LET words == {i \in 1..Len(subs) : subs[i].node_type = "WordToken"}
    IN  IF words = {} THEN {}
        ELSE LET first == CHOOSE i \in words : \A j \in words : i <= j
                 func_name == subs[first].parsed_text
             IN  IF func_name # "" /\ ~StartsWithSigil(func_name) THEN {func_name} ELSE {}

\* a walk that looks at the node itself and not at its children
extract_calls_from_node_top_only(node) ==
    IF node.node_type \in {"CallGroup", "ExpressionGroup"}
    THEN HeadNames(node.sub_nodes) ELSE {}

RECURSIVE extract_calls_from_node(_)
extract_calls_from_node(node) ==
    (IF node.node_type \in {"CallGroup", "ExpressionGroup"}
     THEN HeadNames(node.sub_nodes) ELSE {})
    \cup UNION {extract_calls_from_node(node.sub_nodes[i]) : i \in 1..Len(node.sub_nodes)}

\* a walk that passes over the rule forms
CollectedCallsNoRules(nodes) ==
    UNION {extract_calls_from_node(nodes[i]) :
              i \in {j \in 1..Len(nodes) : nodes[j].node_type # "RuleGroup"}}

\* names collected by the walk over the whole forest, before filtering
CollectedCalls(nodes) == UNION {extract_calls_from_node(nodes[i]) : i \in 1..Len(nodes)}

\* the returned list, as the set of its elements (its order is that of a
\* Python set and is not specified); a parse error gives the empty list
extract_function_calls(text) ==
    LET p == Parse(text)
    IN  IF ~p.ok THEN {}
        ELSE {f \in CollectedCalls(p.nodes) : ~is_builtin_function(f)}

\* lines 112-118: text of the first WordToken child of the first
\* ExpressionGroup child that has one, else ""
RECURSIVE extract_function_name_from_rule(_)
extract_function_name_from_rule(subs) ==
    IF subs = <<>> THEN ""
    ELSE LET sub_node == Head(subs)
             words == {i \in 1..Len(sub_node.sub_nodes) :
                          sub_node.sub_nodes[i].node_type = "WordToken"}
         IN  IF sub_node.node_type = "ExpressionGroup" /\ words # {}
             THEN sub_node.sub_nodes[CHOOSE i \in words : \A j \in words : i <= j].parsed_text
             ELSE extract_function_name_from_rule(Tail(subs))

\* an extractor whose handler passes the exception on
extract_function_definitions_reraise(text) ==
    LET p == Parse(text)
    IN  IF ~p.ok THEN {"<exception>"}
        ELSE {extract_function_name_from_rule(p.nodes[i].sub_nodes) :
                 i \in {j \in 1..Len(p.nodes) : p.nodes[j].node_type = "RuleGroup"}} \ {""}

extract_function_definitions(text) ==
    LET p == Parse(text)
    IN  IF ~p.ok THEN {}
        ELSE {extract_function_name_from_rule(p.nodes[i].sub_nodes) :
                 i \in {j \in 1..Len(p.nodes) : p.nodes[j].node_type = "RuleGroup"}} \ {""}

(***************************************************************************)
(* Source texts used as examples and as chunk contents                     *)
(***************************************************************************)
FactorialText ==
    <<"(", "=", "(", "factorial", "$n", ")",
      "(", "*", "$n", "(", "factorial", "(", "-", "$n", "1", ")", ")", ")", ")">>
NestedText == <<"(", "foo", "(", "bar", "(", "baz", "$x", ")", ")", ")">>
SigilHeadText == <<"(", "$f", "1", "2", ")">>
BuiltinOnlyText == <<"!", "(", "if", "(", "==", "$x", "1", ")", "(", "+", "$x", "1", ")", "$x", ")">>
MainText == <<"(", "=", "(", "main", ")", "(", "helper", "1", ")", ")">>
HelperText == <<"(", "=", "(", "helper", "$n", ")", "(", "+", "$n", "1", ")", ")">>
UnbalancedText == <<"(", "helper", "(", "main", ")">>

TopText == <<"(", "=", "(", "top", ")", "(", "main", "(", "helper", "1", ")", ")", ")">>

\* (= ((main)) (helper)): the rule's head group holds a group and no word
NestedHeadRuleText ==
    <<"(", "=", "(", "(", "main", ")", ")", "(", "helper", ")", ")">>
\* ((main) helper 1): a group whose first child is a group
GroupFirstText == <<"(", "(", "main", ")", "helper", "1", ")">>

\* a chunk that holds both rules and so defines main and helper
BothText == MainText \o HelperText

ExampleTexts ==
    {FactorialText, NestedText, SigilHeadText, BuiltinOnlyText, MainText, HelperText,
     TopText, UnbalancedText, NestedHeadRuleText, GroupFirstText, BothText}

\* the extractors are pure: their results on the chunk texts, computed once
CallsOfText == [t \in ExampleTexts \cup {<<>>} |-> extract_function_calls(t)]
DefinitionsOfText == [t \in ExampleTexts \cup {<<>>} |-> extract_function_definitions(t)]

CallsOf(text) ==
    IF text \in DOMAIN CallsOfText THEN CallsOfText[text] ELSE extract_function_calls(text)
DefinitionsOf(text) ==
    IF text \in DOMAIN DefinitionsOfText THEN DefinitionsOfText[text]
    ELSE extract_function_definitions(text)

(***************************************************************************)
(* Chunk store writes (app.db.db.update_chunk)                             *)
(***************************************************************************)
\* update_one({"chunkId": chunk_id}, {"$set": {"functions": fn}})
update_chunk(st, chunk_id, fn) ==
    [i \in 1..Len(st) |-> IF st[i].chunkId = chunk_id
                          THEN [st[i] EXCEPT !.functions = fn] ELSE st[i]]

\* its return value, modified_count: 1 iff a chunk carries the id and its
\* stored value differs from the one set
modified_count(st, chunk_id, fn) ==
    IF \E i \in 1..Len(st) : st[i].chunkId = chunk_id /\ st[i].functions # fn THEN 1 ELSE 0

(***************************************************************************)
(* Batch resolver (dependency_resolver.py)                                 *)
(***************************************************************************)
DefaultBatchSize == 100

\* a scoped query that leaves the project out
ScopeQueryNoProject(c, project, repo, section, file) ==
    /\ c.source = "code"
    /\ c.repo = repo
    /\ section # <<>> => c.section = section
    /\ file # <<>> => c.file = file

\* lines 167-176: the scoped query of get_chunks_with_function_def
ScopeQuery(c, project, repo, section, file) ==
    /\ c.source = "code"
    /\ c.project = project
    /\ c.repo = repo
    /\ section # <<>> => c.section = section
    /\ file # <<>> => c.file = file

\* a lookup that stops at the first defining chunk
get_chunks_with_function_def_first(function_name, project, repo, section, file, st) ==
    LET Defines(c) == /\ ScopeQuery(c, project, repo, section, file)
                      /\ function_name \in DefinitionsOf(c.chunk)
        found == SelectSeq(st, Defines)
    IN  IF found = <<>> THEN <<>> ELSE <<Head(found)>>

\* lines 178-189: the chunks in scope whose definitions include the name
get_chunks_with_function_def(function_name, project, repo, section, file, st) ==
    LET Defines(c) == /\ ScopeQuery(c, project, repo, section, file)
                      /\ function_name \in DefinitionsOf(c.chunk)
    IN  SelectSeq(st, Defines)

\* an append that does not test whether the id is already listed
RECURSIVE AddDefiningNoDedup(_, _, _)
AddDefiningNoDedup(defining_chunks, own_id, deps) ==
    IF defining_chunks = <<>> THEN deps
    ELSE LET def_chunk_id == Head(defining_chunks).chunkId
         IN  IF def_chunk_id # None /\ def_chunk_id # own_id
             THEN AddDefiningNoDedup(Tail(defining_chunks), own_id, Append(deps, def_chunk_id))
             ELSE AddDefiningNoDedup(Tail(defining_chunks), own_id, deps)

\* lines 134-138: append the ids of the defining chunks, without the
\* resolving chunk itself and without repeats
RECURSIVE AddDefining(_, _, _)
AddDefining(defining_chunks, own_id, deps) ==
    IF defining_chunks = <<>> THEN deps
    ELSE LET def_chunk_id == Head(defining_chunks).chunkId
         IN  IF def_chunk_id # None /\ def_chunk_id # own_id /\ def_chunk_id \notin Range(deps)
             THEN AddDefining(Tail(defining_chunks), own_id, Append(deps, def_chunk_id))
             ELSE AddDefining(Tail(defining_chunks), own_id, deps)

\* lines 129-138: the loop over the called names, in the order given
RECURSIVE ResolveLoop(_, _, _, _)
ResolveLoop(calls, chunk, st, deps) ==
    IF calls = <<>> THEN deps
    ELSE LET defining_chunks ==
                 get_chunks_with_function_def(Head(calls), chunk.project, chunk.repo,
                                              chunk.section, chunk.file, st)
         IN  ResolveLoop(Tail(calls), chunk, st,
                         AddDefining(defining_chunks, chunk.chunkId, deps))

\* a resolution that only finds definitions in chunks not yet given a list
resolve_chunk_dependencies_unlisted_only(chunk, st, calls) ==
    LET Unlisted(c) == c.functions.kind # "list"
    IN  IF chunk.chunk = <<>> THEN <<>>
        ELSE ResolveLoop(calls, chunk, SelectSeq(st, Unlisted), <<>>)

\* resolve_chunk_dependencies, lines 113-140; `calls` is the list that
\* extract_function_calls returned, in the order it happens to have
resolve_chunk_dependencies(chunk, st, calls) ==
    IF chunk.chunk = <<>> THEN <<>>
    ELSE ResolveLoop(calls, chunk, st, <<>>)

\* the orders in which the called names of a chunk may be listed
CallOrders(chunk) == Orderings(CallsOf(chunk.chunk))

\* a selection that does not look at the source
FilterQueryAnySource(c, forced) ==
    \/ forced
    \/ c.functions.kind = "absent"
    \/ c.functions.kind = "null"
    \/ c.functions = FnList(<<>>)

\* lines 36-42: the selection query
FilterQuery(c, forced) ==
    /\ c.source = "code"
    /\ \/ forced
       \/ c.functions.kind = "absent"
       \/ c.functions.kind = "null"
       \/ c.functions = FnList(<<>>)

Matching(st, forced) == LET M(c) == FilterQuery(c, forced) IN SelectSeq(st, M)

\* line 55: find(filter_query).skip(skip).limit(batch_size)
FindPage(st, forced, sk, limit) ==
    LET m == Matching(st, forced)
        last == IF sk + limit < Len(m) THEN sk + limit ELSE Len(m)
    IN  SubSeq(m, sk + 1, last)

\* a write-back that leaves a chunk without dependencies untouched
StoreAfterResolveSkipEmpty(st, chunk_id, deps) ==
    IF deps # <<>> THEN update_chunk(st, chunk_id, FnList(deps)) ELSE st

\* lines 69-87: the write-back of the resolved list, empty or not
StoreAfterResolve(st, chunk_id, deps) ==
    IF deps # <<>>
    THEN update_chunk(st, chunk_id, FnList(deps))
    ELSE update_chunk(st, chunk_id, FnList(<<>>))

\* counters that count every write that modified the chunk
StatsAfterResolveCountAll(s, st, chunk_id, deps) ==
    LET updated == modified_count(st, chunk_id, FnList(deps))
    IN  [total_processed |-> s.total_processed + 1,
         total_updated |-> s.total_updated + updated,
         total_dependencies_added |-> s.total_dependencies_added + updated * Len(deps)]

\* lines 64 and 69-78: the counters after a chunk resolved without error
StatsAfterResolve(s, st, chunk_id, deps) ==
    LET updated == modified_count(st, chunk_id, FnList(deps))
    IN  IF deps # <<>> /\ updated > 0
        THEN [total_processed |-> s.total_processed + 1,
              total_updated |-> s.total_updated + 1,
              total_dependencies_added |-> s.total_dependencies_added + Len(deps)]
        ELSE [s EXCEPT !.total_processed = s.total_processed + 1]

\* an error handler that marks the failed chunk as resolved
StoreAfterErrorMarkEmpty(st, chunk_id) == update_chunk(st, chunk_id, FnList(<<>>))

\* lines 89-91: the handler logs; it writes nothing
StoreAfterError(st, chunk_id) == st

\* lines 64 and 89-91: the counters after a chunk whose resolution raised
StatsAfterError(s) == [s EXCEPT !.total_processed = s.total_processed + 1]

\* a paging step that does not advance the offset
AfterChunkNoAdvance(page, p, sk) ==
    IF p < Len(page)
    THEN [rpc |-> "processing", pos |-> p + 1, skip |-> sk]
    ELSE [rpc |-> "paging", pos |-> 0, skip |-> sk]

\* lines 63 and 93: where the run stands after the chunk at position p
AfterChunk(page, p, sk) ==
    IF p < Len(page)
    THEN [rpc |-> "processing", pos |-> p + 1, skip |-> sk]
    ELSE [rpc |-> "paging", pos |-> 0, skip |-> sk + Len(page)]

\* an error handler that gives up the run
AfterFailedChunkAbort(page, p, sk) == [rpc |-> "returned", pos |-> 0, skip |-> sk]

\* lines 89-91: the handler logs and continues with the next chunk
AfterFailedChunk(page, p, sk) == AfterChunk(page, p, sk)

(***************************************************************************)
(* RAGGenerator._expand_dependencies                                       *)
(***************************************************************************)
DefaultMaxDepth == 3

\* processed_docs is a dict: a sequence of [key, doc] with distinct keys
HasKey(pd, k) == \E i \in 1..Len(pd) : pd[i].key = k

\* pd[k] = d: a new key is appended, an existing key keeps its position
Put(pd, k, d) ==
    IF HasKey(pd, k)
    THEN [i \in 1..Len(pd) |-> IF pd[i].key = k THEN [key |-> k, doc |-> d] ELSE pd[i]]
    ELSE Append(pd, [key |-> k, doc |-> d])

Values(pd) == [i \in 1..Len(pd) |-> pd[i].doc]

\* doc.metadata.get("original_chunkId") or doc.metadata.get("chunkId")
DocKey(d) == IF d.original_chunkId # None THEN d.original_chunkId ELSE d.chunkId

\* lines 110-115: seed processed_docs and ids_to_check from the code documents
RECURSIVE SeedLoop(_, _, _)
SeedLoop(docs, pd, ids) ==
    IF docs = <<>> THEN [processed |-> pd, ids |-> ids]
    ELSE LET doc == Head(docs)
             chunk_id == DocKey(doc)
         IN  IF chunk_id # None
             THEN SeedLoop(Tail(docs), Put(pd, chunk_id, doc), Append(ids, chunk_id))
             ELSE SeedLoop(Tail(docs), pd, ids)

\* a synthesised document without the dependency marker
NewDocUnmarked(chunk_id, chunk_data) ==
    [text |-> chunk_data.chunk,
     original_chunkId |-> chunk_id,
     chunkId |-> None,
     is_dependency |-> FALSE]

\* lines 141-153: the in-memory document synthesised for a fetched dependency
NewDoc(chunk_id, chunk_data) ==
    [text |-> chunk_data.chunk,
     original_chunkId |-> chunk_id,
     chunkId |-> None,
     is_dependency |-> TRUE]

\* a collection that stops after the first id of the list
CollectDepsFirstOnly(deps, pd, next) ==
    IF deps = <<>> THEN next
    ELSE LET dep_id == Head(deps)
         IN  IF dep_id # None /\ ~HasKey(pd, dep_id) /\ dep_id \notin next
             THEN next \cup {dep_id}
             ELSE next

\* lines 158-163: collect the not yet seen ids of one adjacency list
RECURSIVE CollectDeps(_, _, _)
CollectDeps(deps, pd, next) ==
    IF deps = <<>> THEN next
    ELSE LET dep_id == Head(deps)
         IN  IF dep_id # None /\ ~HasKey(pd, dep_id) /\ dep_id \notin next
             THEN CollectDeps(Tail(deps), pd, next \cup {dep_id})
             ELSE CollectDeps(Tail(deps), pd, next)

\* fetched_chunks_map.get(chunk_id): the fetched chunks carrying this id
\* (the empty sequence stands for None; the map keeps the last one fetched)
FetchedGet(chunks_data, chunk_id) ==
    LET Is(c) == c.chunkId = chunk_id
    IN  SelectSeq(chunks_data, Is)

\* a round that stops at the first id the store did not return
RECURSIVE RoundLoopBreakOnMissing(_, _, _, _)
RoundLoopBreakOnMissing(ids, chunks_data, pd, next) ==
    IF ids = <<>> THEN [processed |-> pd, next |-> next]
    ELSE LET chunk_id == Head(ids)
             hit == FetchedGet(chunks_data, chunk_id)
             chunk_data == hit[Len(hit)]
         IN  IF hit = <<>>
             THEN [processed |-> pd, next |-> next]
             ELSE LET pd2 == IF ~HasKey(pd, chunk_id)
                             THEN Put(pd, chunk_id, NewDoc(chunk_id, chunk_data))
                             ELSE pd
                      dependencies == GetFunctions(chunk_data)
                      next2 == IF dependencies.kind = "list"
                               THEN CollectDeps(dependencies.ids, pd2, next)
                               ELSE next
                  IN  RoundLoopBreakOnMissing(Tail(ids), chunks_data, pd2, next2)

\* lines 134-163: handle the ids of one round in list order
RECURSIVE RoundLoop(_, _, _, _)
RoundLoop(ids, chunks_data, pd, next) ==
    IF ids = <<>> THEN [processed |-> pd, next |-> next]
    ELSE LET chunk_id == Head(ids)
             hit == FetchedGet(chunks_data, chunk_id)
             chunk_data == hit[Len(hit)]
         IN  IF hit = <<>>
             THEN RoundLoop(Tail(ids), chunks_data, pd, next)
             ELSE LET pd2 == IF ~HasKey(pd, chunk_id)
                             THEN Put(pd, chunk_id, NewDoc(chunk_id, chunk_data))
                             ELSE pd
                      dependencies == GetFunctions(chunk_data)
                      next2 == IF dependencies.kind = "list"
                               THEN CollectDeps(dependencies.ids, pd2, next)
                               ELSE next
                  IN  RoundLoop(Tail(ids), chunks_data, pd2, next2)

(***************************************************************************)
(* Inputs of the expander                                                  *)
(***************************************************************************)
\* text of the stored chunk c in the expander's stores: the call (c)
DepText(c) == <<"(", c, ")">>

\* documents the retriever may hand over in the code category
Doc(oid, cid) ==
    [text |-> IF oid # None THEN DepText(oid) ELSE IF cid # None THEN DepText(cid) ELSE <<>>,
     original_chunkId |-> oid,
     chunkId |-> cid,
     is_dependency |-> FALSE]

SeedDocs ==
    {Doc(None, None), Doc(None, "A"), Doc(None, "B"), Doc(None, GhostId), Doc("A", "B")}

SeedLists == UNION {[1..n -> SeedDocs] : n \in 0..MaxSeeds}

OtherDocs == <<[text |-> <<"doc">>, original_chunkId |-> None, chunkId |-> "N",
                is_dependency |-> FALSE]>>

\* adjacency lists a stored chunk may carry (a null value is read like a
\* missing one by line 158-159 and is left to the resolver's stores)
FnChoices ==
    {FnAbsent, FnList(<<>>), FnList(<<"B", "C">>)}
        \cup {FnList(<<i>>) : i \in AllIds}

Chunk(id, text, fn) ==
    [chunkId |-> id, chunk |-> text, source |-> "code", project |-> "P", repo |-> "R",
     section |-> <<>>, file |-> <<>>, functions |-> fn]

ExpanderStores ==
    {[i \in 1..Len(StoredIds) |-> Chunk(StoredIds[i], DepText(StoredIds[i]), f[i])] :
        f \in [1..Len(StoredIds) -> FnChoices]}

ExpanderIdle ==
    /\ mongo_db = FALSE
    /\ via_chat = FALSE
    /\ gpc = "idle"
    /\ via_generate = FALSE
    /\ retrieved = <<>>
    /\ docs_by_category = [c \in {} |-> <<>>]
    /\ max_depth = 0
    /\ processed_docs = <<>>
    /\ ids_to_check = <<>>
    /\ current_depth = 0
    /\ fetch_log = <<>>
    /\ context = <<>>

AnalyzerIdle ==
    /\ code = <<>>
    /\ analyzed = {"idle"}
    /\ function_calls = {}
    /\ definitions = {}

ZeroStats == [total_processed |-> 0, total_updated |-> 0, total_dependencies_added |-> 0]

ResolverIdle ==
    /\ rpc = "idle"
    /\ run = 0
    /\ force = FALSE
    /\ batch_size = 0
    /\ total_chunks = 0
    /\ skip = 0
    /\ chunks = <<>>
    /\ pos = 0
    /\ stats = ZeroStats
    /\ initial_match = {}
    /\ start_functions = <<>>
    /\ pages_log = <<>>
    /\ run_log = <<>>

ScopeIdle ==
    /\ resolving = None
    /\ dependency_ids = <<>>

\* the locals of a call that has not been made
SecondNotStarted ==
    [rpc |-> "idle", force |-> FALSE, batch_size |-> 0, total_chunks |-> 0, skip |-> 0,
     chunks |-> <<>>, pos |-> 0, dependency_ids |-> <<>>, stats |-> ZeroStats,
     log |-> <<>>]

SecondIdle == second = SecondNotStarted

\* the generator as constructed: by a caller that hands it a store handle or
\* none, or by ChatService.generate_response (chat_service.py lines 186-198),
\* which passes no mongo_db, so that the default None of line 19 applies
InitExpand ==
    /\ AnalyzerIdle /\ ResolverIdle /\ ScopeIdle /\ SecondIdle
    /\ store \in ExpanderStores
    /\ mongo_db \in BOOLEAN
    /\ via_chat \in BOOLEAN
    /\ via_chat => ~mongo_db
    /\ gpc = "start"
    /\ via_generate = FALSE
    /\ retrieved = <<>>
    /\ docs_by_category = [c \in {} |-> <<>>]
    /\ max_depth = 0
    /\ processed_docs = <<>>
    /\ ids_to_check = <<>>
    /\ current_depth = 0
    /\ fetch_log = <<>>
    /\ context = <<>>

\* generate_response lines 47-50 (max_depth = 3), or a direct call of
\* _expand_dependencies with any max_depth: the result set arrives
Retrieve ==
    /\ UNCHANGED <<anaVars, resVars, scopeVars, conVars>>
    /\ gpc = "start"
    /\ \E docs \in SeedLists, has_code \in BOOLEAN, gen \in BOOLEAN, d \in 0..MaxDepth :
         /\ (~has_code) => docs = <<>>
         /\ gen => d = DefaultMaxDepth
         /\ via_chat => gen
         /\ via_generate' = gen
         /\ max_depth' = d
         /\ retrieved' = docs
         /\ docs_by_category' =
                IF has_code THEN [c \in {"code", "documentation"} |->
                                    IF c = "code" THEN docs ELSE OtherDocs]
                ELSE [c \in {"documentation"} |-> OtherDocs]
    /\ gpc' = "retrieved"
    /\ UNCHANGED <<store, mongo_db, via_chat, processed_docs, ids_to_check, current_depth,
                   fetch_log, context>>

\* docs_by_category.get("code", [])
CodeDocs(dbc) == IF "code" \in DOMAIN dbc THEN dbc["code"] ELSE <<>>

\* an entry test that does not look at the store handle
SkipExpansionNoHandleTest == CodeDocs(docs_by_category) = <<>>

\* lines 98-104: the two early returns of _expand_dependencies
SkipExpansion == ~mongo_db \/ CodeDocs(docs_by_category) = <<>>

\* _expand_dependencies lines 98-117
ExpandEnter ==
    /\ UNCHANGED <<anaVars, resVars, scopeVars, conVars>>
    /\ gpc = "retrieved"
    /\ IF SkipExpansion
       THEN /\ gpc' = "expanded"
            /\ UNCHANGED <<processed_docs, ids_to_check, current_depth>>
       ELSE LET s == SeedLoop(CodeDocs(docs_by_category), <<>>, <<>>)
            IN  /\ processed_docs' = s.processed
                /\ ids_to_check' = s.ids
                /\ current_depth' = 0
                /\ gpc' = "loop"
    /\ UNCHANGED <<store, mongo_db, via_chat, via_generate, retrieved, docs_by_category, max_depth,
                   fetch_log, context>>

\* a loop guard that allows one round more
LoopConditionInclusive == current_depth <= max_depth /\ ids_to_check # <<>>

\* the loop guard without its depth bound
LoopConditionNoDepthBound == ids_to_check # <<>>

\* line 119: while current_depth < max_depth and ids_to_check
LoopCondition == current_depth < max_depth /\ ids_to_check # <<>>

\* one iteration of the while loop, lines 119-166: the batched fetch succeeds
ExpandRound ==
    /\ UNCHANGED <<anaVars, resVars, scopeVars, conVars>>
    /\ gpc = "loop"
    /\ LoopCondition
    /\ LET chunks_data == GetChunksByIds(store, ids_to_check, Len(ids_to_check))
           r == RoundLoop(ids_to_check, chunks_data, processed_docs, {})
       IN  /\ processed_docs' = r.processed
           /\ ids_to_check' \in Orderings(r.next)
    /\ fetch_log' = Append(fetch_log, ids_to_check)
    /\ current_depth' = current_depth + 1
    /\ UNCHANGED <<store, mongo_db, via_chat, gpc, via_generate, retrieved, docs_by_category,
                   max_depth, context>>

\* lines 123-127: get_chunks raises (store error); neither _expand_dependencies
\* nor generate_response (lines 47-54) has a handler, so the caller gets it
ExpandFetchError ==
    /\ UNCHANGED <<anaVars, resVars, scopeVars, conVars>>
    /\ gpc = "loop"
    /\ LoopCondition
    /\ fetch_log' = Append(fetch_log, ids_to_check)
    /\ gpc' = "raised"
    /\ UNCHANGED <<store, mongo_db, via_chat, via_generate, retrieved, docs_by_category, max_depth,
                   processed_docs, ids_to_check, current_depth, context>>

\* a write-back that puts the expanded list under every category
WriteBackEveryCategory(dbc, pd) == [c \in DOMAIN dbc |-> Values(pd)]

\* line 168: docs_by_category["code"] = list(processed_docs.values())
WriteBack(dbc, pd) == [dbc EXCEPT !["code"] = Values(pd)]

\* line 168, once the loop condition fails
ExpandFinish ==
    /\ UNCHANGED <<anaVars, resVars, scopeVars, conVars>>
    /\ gpc = "loop"
    /\ ~LoopCondition
    /\ docs_by_category' = WriteBack(docs_by_category, processed_docs)
    /\ gpc' = "expanded"
    /\ UNCHANGED <<store, mongo_db, via_chat, via_generate, retrieved, max_depth, processed_docs,
                   ids_to_check, current_depth, fetch_log, context>>

\* _assemble_context, lines 63-70: the texts of all documents by category
RECURSIVE AssembleContext(_, _)
AssembleContext(dbc, cats) ==
    IF cats = <<>> THEN <<>>
    ELSE (IF Head(cats) \in DOMAIN dbc
          THEN [i \in 1..Len(dbc[Head(cats)]) |-> dbc[Head(cats)][i].text]
          ELSE <<>>) \o AssembleContext(dbc, Tail(cats))

\* generate_response lines 51-53: assemble the context and ask the LLM
Respond ==
    /\ UNCHANGED <<anaVars, resVars, scopeVars, conVars>>
    /\ gpc = "expanded"
    /\ via_generate
    /\ context' = AssembleContext(docs_by_category, <<"code", "documentation">>)
    /\ gpc' = "responded"
    /\ UNCHANGED <<store, mongo_db, via_chat, via_generate, retrieved, docs_by_category, max_depth,
                   processed_docs, ids_to_check, current_depth, fetch_log>>

NextExpand ==
    \/ Retrieve
    \/ ExpandEnter
    \/ ExpandRound
    \/ ExpandFetchError
    \/ ExpandFinish
    \/ Respond

SpecExpand == InitExpand /\ [][NextExpand]_vars

(***************************************************************************)
(* The extractors applied to bounded texts                                 *)
(***************************************************************************)
Alphabet == {"(", ")", "=", "f", "+", "$x"}

BoundedTexts == UNION {[1..n -> Alphabet] : n \in 0..MaxTextLen}


InitAnalyze ==
    /\ ExpanderIdle /\ ResolverIdle /\ ScopeIdle /\ SecondIdle
    /\ store = <<>>
    /\ code \in BoundedTexts \cup ExampleTexts
    /\ analyzed = {}
    /\ function_calls = {}
    /\ definitions = {}

\* extract_function_calls(code), lines 25-47
ExtractFunctionCalls ==
    /\ "calls" \notin analyzed
    /\ "idle" \notin analyzed
    /\ function_calls' = extract_function_calls(code)
    /\ analyzed' = analyzed \cup {"calls"}
    /\ UNCHANGED <<store, expVars, resVars, scopeVars, conVars, code, definitions>>

\* extract_function_definitions(code), lines 73-96
ExtractFunctionDefinitions ==
    /\ "defs" \notin analyzed
    /\ "idle" \notin analyzed
    /\ definitions' = extract_function_definitions(code)
    /\ analyzed' = analyzed \cup {"defs"}
    /\ UNCHANGED <<store, expVars, resVars, scopeVars, conVars, code, function_calls>>

NextAnalyze ==
    \/ ExtractFunctionCalls
    \/ ExtractFunctionDefinitions

SpecAnalyze == InitAnalyze /\ [][NextAnalyze]_vars

(***************************************************************************)
(* The batch resolver run over bounded stores                              *)
(***************************************************************************)
ResolverIds == <<"X", "Y", "Z">>

ResolverTexts == {MainText, HelperText}

ResolverFunctions == {FnAbsent, FnList(<<>>), FnList(<<"Y">>)}

\* what one stored chunk may look like before a run: a code chunk that
\* calls or defines helper, with a missing, empty or non-empty functions
\* list; a code chunk with two callees; one that does not parse; an empty
\* one; one whose functions is null; or a documentation chunk
ChunkShapes ==
    {[chunk |-> t, source |-> "code", functions |-> f] :
        t \in ResolverTexts, f \in ResolverFunctions}
    \cup {[chunk |-> TopText, source |-> "code", functions |-> FnAbsent],
          [chunk |-> UnbalancedText, source |-> "code", functions |-> FnAbsent],
          [chunk |-> <<>>, source |-> "code", functions |-> FnAbsent],
          [chunk |-> HelperText, source |-> "code", functions |-> FnNull],
          [chunk |-> HelperText, source |-> "documentation", functions |-> FnAbsent]}

ResolverStores ==
    {[i \in 1..Len(ResolverIds) |->
        [Chunk(ResolverIds[i], sh[i].chunk, sh[i].functions) EXCEPT !.source = sh[i].source]] :
        sh \in [1..Len(ResolverIds) -> ChunkShapes]}

BatchSizes == (1..MaxBatch) \cup {DefaultBatchSize}

InitResolve ==
    /\ ExpanderIdle /\ AnalyzerIdle /\ ScopeIdle /\ SecondIdle
    /\ store \in ResolverStores
    /\ rpc = "idle"
    /\ run = 0
    /\ force = FALSE
    /\ batch_size = 0
    /\ total_chunks = 0
    /\ skip = 0
    /\ chunks = <<>>
    /\ pos = 0
    /\ stats = ZeroStats
    /\ initial_match = {}
    /\ start_functions = <<>>
    /\ pages_log = <<>>
    /\ run_log = <<>>

\* add_function_dependencies lines 28-53; a later run in succession is
\* started with the arguments of the first
StartRun ==
    /\ rpc \in {"idle", "returned"}
    /\ run < MaxRuns
    /\ run' = run + 1
    /\ IF run = 0
       THEN force' \in BOOLEAN /\ batch_size' \in BatchSizes
       ELSE UNCHANGED <<force, batch_size>>
    /\ stats' = ZeroStats
    /\ total_chunks' = Len(Matching(store, force'))
    /\ initial_match' = {Matching(store, force')[i].chunkId :
                            i \in 1..Len(Matching(store, force'))}
    /\ start_functions' = [i \in 1..Len(store) |-> store[i].functions]
    /\ pages_log' = <<>>
    /\ run_log' = <<>>
    /\ skip' = 0
    /\ chunks' = <<>>
    /\ pos' = 0
    /\ rpc' = IF total_chunks' = 0 THEN "returned" ELSE "paging"
    /\ UNCHANGED <<store, expVars, anaVars, scopeVars, conVars>>

\* lines 54-61: the loop test and the read of the next page
FetchPage ==
    /\ rpc = "paging"
    /\ IF skip < total_chunks
       THEN LET page == FindPage(store, force, skip, batch_size)
            IN  IF page = <<>>
                THEN rpc' = "returned" /\ UNCHANGED <<chunks, pos, pages_log>>
                ELSE /\ chunks' = page
                     /\ pos' = 1
                     /\ pages_log' = Append(pages_log, [i \in 1..Len(page) |-> page[i].chunkId])
                     /\ rpc' = "processing"
       ELSE rpc' = "returned" /\ UNCHANGED <<chunks, pos, pages_log>>
    /\ UNCHANGED <<store, expVars, anaVars, scopeVars, conVars, run, force, batch_size,
                   total_chunks, skip, stats, initial_match, start_functions, run_log>>

\* lines 63-87 (and 93 after the last chunk of the page): one chunk of the
\* page is resolved and written back
ProcessChunk ==
    /\ rpc = "processing"
    /\ \E calls \in CallOrders(chunks[pos]) :
         LET chunk == chunks[pos]
             deps == resolve_chunk_dependencies(chunk, store, calls)
             after == AfterChunk(chunks, pos, skip)
         IN  /\ store' = StoreAfterResolve(store, chunk.chunkId, deps)
             /\ stats' = StatsAfterResolve(stats, store, chunk.chunkId, deps)
             /\ run_log' = Append(run_log, [chunkId |-> chunk.chunkId, outcome |-> "ok",
                                            deps |-> deps])
             /\ rpc' = after.rpc
             /\ pos' = after.pos
             /\ skip' = after.skip
    /\ UNCHANGED <<expVars, anaVars, scopeVars, conVars, run, force, batch_size, total_chunks,
                   chunks, initial_match, start_functions, pages_log>>

\* lines 63-67 and 89-91: resolving the chunk raises (a store error during
\* the scoped lookup or the write), nothing is written for it
ProcessChunkError ==
    /\ rpc = "processing"
    /\ LET chunk == chunks[pos]
           after == AfterFailedChunk(chunks, pos, skip)
       IN  /\ store' = StoreAfterError(store, chunk.chunkId)
           /\ stats' = StatsAfterError(stats)
           /\ run_log' = Append(run_log, [chunkId |-> chunk.chunkId, outcome |-> "error",
                                          deps |-> <<>>])
           /\ rpc' = after.rpc
           /\ pos' = after.pos
           /\ skip' = after.skip
    /\ UNCHANGED <<expVars, anaVars, scopeVars, conVars, run, force, batch_size, total_chunks,
                   chunks, initial_match, start_functions, pages_log>>

NextResolve ==
    \/ StartRun
    \/ FetchPage
    \/ ProcessChunk
    \/ ProcessChunkError

SpecResolve == InitResolve /\ [][NextResolve]_vars

\* a started run is a sequential coroutine that keeps running: the read of
\* the next page and the handling of the next chunk are eventually done
FairShapes ==
    {[chunk |-> MainText, source |-> "code", functions |-> FnAbsent],
     [chunk |-> HelperText, source |-> "code", functions |-> FnAbsent],
     [chunk |-> HelperText, source |-> "code", functions |-> FnList(<<>>)],
     [chunk |-> UnbalancedText, source |-> "code", functions |-> FnAbsent],
     [chunk |-> HelperText, source |-> "documentation", functions |-> FnAbsent]}

FairStores ==
    {st \in ResolverStores :
        \A i \in 1..Len(st) :
            [chunk |-> st[i].chunk, source |-> st[i].source,
             functions |-> st[i].functions] \in FairShapes}

InitResolveFair ==
    /\ InitResolve
    /\ store \in FairStores

SpecResolveFair ==
    /\ InitResolveFair
    /\ [][NextResolve]_vars
    /\ WF_vars(FetchPage)
    /\ WF_vars(ProcessChunk)

(***************************************************************************)
(* Two add_function_dependencies calls on one store.  The calls are        *)
(* coroutines: control may pass from one to the other at every await, so   *)
(* the second call is followed between the resolution of a chunk (line 67) *)
(* and the write of the result (lines 70-87).                              *)
(***************************************************************************)
InterleaveFunctions == {FnAbsent, FnList(<<"X">>)}

\* X calls main and helper, Y defines helper; each has no functions value
\* yet or a list left by an earlier state of the store
InterleaveStores ==
    {<<Chunk("X", MainText, fx), Chunk("Y", HelperText, fy)>> :
        fx \in InterleaveFunctions, fy \in InterleaveFunctions}

\* the second call reads one chunk per page or everything in one page
SecondBatchSizes == {1, DefaultBatchSize}

InitInterleave ==
    /\ ExpanderIdle /\ AnalyzerIdle /\ ScopeIdle
    /\ ResolverIdle /\ SecondIdle
    /\ store \in InterleaveStores

\* lines 28-53 of the second call
SecondStart ==
    /\ second.rpc = "idle"
    /\ \E f \in BOOLEAN, b \in SecondBatchSizes :
         LET n == Len(Matching(store, f))
         IN  second' = [second EXCEPT !.force = f, !.batch_size = b,
                                      !.total_chunks = n,
                                      !.rpc = IF n = 0 THEN "returned" ELSE "paging"]
    /\ UNCHANGED <<store, expVars, anaVars, resVars, scopeVars>>

\* lines 54-61 of the second call
SecondFetchPage ==
    /\ second.rpc = "paging"
    /\ IF second.skip < second.total_chunks
       THEN LET page == FindPage(store, second.force, second.skip, second.batch_size)
            IN  IF page = <<>>
                THEN second' = [second EXCEPT !.rpc = "returned"]
                ELSE second' = [second EXCEPT !.chunks = page, !.pos = 1,
                                              !.rpc = "processing"]
       ELSE second' = [second EXCEPT !.rpc = "returned"]
    /\ UNCHANGED <<store, expVars, anaVars, resVars, scopeVars>>

\* lines 63-67 of the second call: the chunk is counted and resolved
SecondResolve ==
    /\ second.rpc = "processing"
    /\ \E calls \in CallOrders(second.chunks[second.pos]) :
         second' = [second EXCEPT
                      !.dependency_ids =
                          resolve_chunk_dependencies(second.chunks[second.pos], store, calls),
                      !.rpc = "writing"]
    /\ UNCHANGED <<store, expVars, anaVars, resVars, scopeVars>>

\* lines 69-87 (and 93) of the second call: the result is written
SecondWrite ==
    /\ second.rpc = "writing"
    /\ LET chunk == second.chunks[second.pos]
           deps == second.dependency_ids
           after == AfterChunk(second.chunks, second.pos, second.skip)
       IN  /\ store' = StoreAfterResolve(store, chunk.chunkId, deps)
           /\ second' = [second EXCEPT
                           !.stats = StatsAfterResolve(second.stats, store, chunk.chunkId, deps),
                           !.log = Append(second.log, chunk.chunkId),
                           !.dependency_ids = <<>>,
                           !.rpc = after.rpc, !.pos = after.pos, !.skip = after.skip]
    /\ UNCHANGED <<expVars, anaVars, resVars, scopeVars>>

\* lines 89-91 of the second call: the lookup or the write raises
SecondError ==
    /\ second.rpc \in {"processing", "writing"}
    /\ LET chunk == second.chunks[second.pos]
           after == AfterFailedChunk(second.chunks, second.pos, second.skip)
       IN  /\ store' = StoreAfterError(store, chunk.chunkId)
           /\ second' = [second EXCEPT
                           !.stats = StatsAfterError(second.stats),
                           !.dependency_ids = <<>>,
                           !.rpc = after.rpc, !.pos = after.pos, !.skip = after.skip]
    /\ UNCHANGED <<expVars, anaVars, resVars, scopeVars>>

NextInterleave ==
    \/ StartRun
    \/ FetchPage
    \/ ProcessChunk
    \/ ProcessChunkError
    \/ SecondStart
    \/ SecondFetchPage
    \/ SecondResolve
    \/ SecondWrite
    \/ SecondError

SpecInterleave == InitInterleave /\ [][NextInterleave]_vars

(***************************************************************************)
(* resolve_chunk_dependencies applied to chunks of stores with mixed scopes *)
(***************************************************************************)
Projects == {"P", "Q"}
Repos == {"R", "S"}
Sections == {<<>>, <<"s">>}
Files == {<<>>, <<"x">>, <<"y">>}

Scopes == [project : Projects, repo : Repos, section : Sections, file : Files]

ScopedChunk(id, text, source, sc) ==
    [chunkId |-> id, chunk |-> text, source |-> source, project |-> sc.project,
     repo |-> sc.repo, section |-> sc.section, file |-> sc.file, functions |-> FnAbsent]

\* X calls main and helper and defines main; Y and Z define helper, main or
\* both somewhere, or Z is prose
ScopeStores ==
    {<<ScopedChunk("X", MainText, "code", sx),
       ScopedChunk("Y", ty, "code", sy),
       ScopedChunk("Z", tz, srcz, sz)>> :
        sx \in Scopes, sy \in Scopes, sz \in Scopes,
        ty \in {HelperText, MainText, BothText}, tz \in {HelperText},
        srcz \in {"code", "documentation"}}

InitScope ==
    /\ ExpanderIdle /\ AnalyzerIdle /\ ResolverIdle /\ SecondIdle
    /\ store \in ScopeStores
    /\ resolving = None
    /\ dependency_ids = <<>>

\* resolve_chunk_dependencies(chunk, mongo_db) for one stored chunk
ResolveChunk ==
    /\ resolving = None
    /\ \E i \in 1..Len(store) : \E calls \in CallOrders(store[i]) :
         /\ resolving' = store[i].chunkId
         /\ dependency_ids' = resolve_chunk_dependencies(store[i], store, calls)
    /\ UNCHANGED <<store, expVars, anaVars, resVars, conVars>>

NextScope == ResolveChunk

SpecScope == InitScope /\ [][NextScope]_vars

(***************************************************************************)
(* Properties of the extractors                                            *)
(***************************************************************************)
\* the names the walk collects from the text, built-ins included
CallHeads == IF Parse(code).ok THEN CollectedCalls(Parse(code).nodes) ELSE {}

\* C10: no name returned by extract_function_calls is a built-in, and a text
\* whose call heads are all built-in names gives the empty result.
C10_NoBuiltinReturned ==
    "calls" \in analyzed =>
        /\ function_calls \cap BUILTIN_FUNCTIONS = {}
        /\ CallHeads \subseteq BUILTIN_FUNCTIONS => function_calls = {}

\* a text with a built-in call head and a custom one has been analysed
C10_Witness ==
    /\ "calls" \in analyzed
    /\ "+" \in CallHeads
    /\ "f" \in CallHeads
    /\ function_calls = {"f"}

\* every node of the parsed text, at any depth
RECURSIVE NodesOf(_)
NodesOf(node) ==
    {node} \cup UNION {NodesOf(node.sub_nodes[i]) : i \in 1..Len(node.sub_nodes)}

ForestNodes ==
    IF Parse(code).ok
    THEN UNION {NodesOf(Parse(code).nodes[i]) : i \in 1..Len(Parse(code).nodes)}
    ELSE {}

GroupNodes == {n \in ForestNodes : n.node_type \in {"CallGroup", "ExpressionGroup"}}

\* the texts of the words that are the first child of a group
FirstChildWords ==
    {n.sub_nodes[1].parsed_text :
        n \in {g \in GroupNodes : g.sub_nodes # <<>> /\ g.sub_nodes[1].node_type = "WordToken"}}

\* the depths at which a group headed by the word occurs (top level is 1)
RECURSIVE HeadDepths(_, _, _)
HeadDepths(node, word, depth) ==
    (IF /\ node.node_type \in {"CallGroup", "ExpressionGroup"}
        /\ node.sub_nodes # <<>>
        /\ node.sub_nodes[1] = SyntaxNode("WordToken", word, <<>>)
     THEN {depth} ELSE {})
    \cup UNION {HeadDepths(node.sub_nodes[i], word, depth + 1) : i \in 1..Len(node.sub_nodes)}

\* C11: the head name of every group, at every nesting depth, is reported
\* (unless it is a built-in or a variable); (foo (bar (baz $x))) gives foo,
\* bar and baz.
C11_NestedHeadsReported ==
    "calls" \in analyzed =>
        /\ (FirstChildWords \ (BUILTIN_FUNCTIONS \cup VariableWords)) \subseteq function_calls
        /\ code = NestedText => function_calls = {"foo", "bar", "baz"}

\* a text has been analysed whose only group headed by f lies below the top
\* level
C11_Witness ==
    /\ "calls" \in analyzed
    /\ Parse(code).ok
    /\ Len(Parse(code).nodes) = 1
    /\ HeadDepths(Parse(code).nodes[1], "f", 1) = {2}
    /\ function_calls = {"f"}

\* C12 (as claimed): a name is reported only if it is the first child of
\* some group, a word, and not a variable; a word in a later position of a
\* group is not reported on account of that group.
C12_OnlyFirstChildReported ==
    "calls" \in analyzed => function_calls \subseteq (FirstChildWords \ VariableWords)

\* the name the claim gives a top-level rule: the first word child of its
\* first ExpressionGroup child, if both exist
ClaimedRuleName(rule) ==
    LET groups == {i \in 1..Len(rule.sub_nodes) :
                      rule.sub_nodes[i].node_type = "ExpressionGroup"}
    IN  IF groups = {} THEN {}
        ELSE LET g == rule.sub_nodes[CHOOSE i \in groups : \A j \in groups : i <= j]
                 words == {i \in 1..Len(g.sub_nodes) : g.sub_nodes[i].node_type = "WordToken"}
             IN  IF words = {} THEN {}
                 ELSE {g.sub_nodes[CHOOSE i \in words : \A j \in words : i <= j].parsed_text}

ClaimedDefinitions ==
    IF Parse(code).ok
    THEN UNION {ClaimedRuleName(Parse(code).nodes[i]) :
                   i \in {j \in 1..Len(Parse(code).nodes) :
                              Parse(code).nodes[j].node_type = "RuleGroup"}}
    ELSE {}

\* C13 (as claimed): the definitions are exactly the first word of the first
\* ExpressionGroup child of each top-level rule; a rule whose first
\* ExpressionGroup child has no word child contributes nothing.
C13_DefinitionsFromFirstGroup ==
    "defs" \in analyzed => definitions = ClaimedDefinitions

\* C14: on a text that does not parse, both extractors return the empty
\* list instead of raising.
C14_ParseFailureGivesEmpty ==
    ~Parse(code).ok =>
        /\ "calls" \in analyzed => function_calls = {}
        /\ "defs" \in analyzed => definitions = {}

\* the unbalanced text has been through both extractors
C14_Witness ==
    /\ code = UnbalancedText
    /\ ~Parse(code).ok
    /\ analyzed = {"calls", "defs"}
    /\ function_calls = {}
    /\ definitions = {}

\* C30: the head of a rule's pattern is itself a group head, so every name
\* returned by extract_function_definitions that is neither a built-in nor
\* a variable is also returned by extract_function_calls.
C30_DefinedNamesAreCalls ==
    {"calls", "defs"} \subseteq analyzed =>
        (definitions \ (BUILTIN_FUNCTIONS \cup VariableWords)) \subseteq function_calls

\* a rule whose body calls nothing has been through both extractors and its
\* defined name is among the calls
C30_Witness ==
    /\ analyzed = {"calls", "defs"}
    /\ code = <<"(", "=", "(", "f", ")", ")">>
    /\ definitions = {"f"}
    /\ function_calls = {"f"}

(***************************************************************************)
(* Properties of the expander                                              *)
(***************************************************************************)
StoredIdSet == {store[i].chunkId : i \in 1..Len(store)}

ChunkById(id) == CHOOSE c \in Range(store) : c.chunkId = id

\* ids listed in the adjacency of the stored chunks among S
Successors(S) ==
    UNION {Range(GetFunctions(ChunkById(id)).ids) : id \in S \cap StoredIdSet}

\* ids at most k dependency edges away from an id of S
RECURSIVE WithinEdges(_, _)
WithinEdges(S, k) == IF k = 0 THEN S ELSE WithinEdges(S \cup Successors(S), k - 1)

SeedKeys == {DocKey(retrieved[i]) : i \in 1..Len(retrieved)} \ {None}

CodeKeys == {DocKey(CodeDocs(docs_by_category)[i]) : i \in 1..Len(CodeDocs(docs_by_category))}

\* the expansion loop was entered and has returned
ExpansionRan == gpc \in {"expanded", "responded"} /\ mongo_db /\ retrieved # <<>>

DistinctKeys(docs) ==
    \A i, j \in 1..Len(docs) : DocKey(docs[i]) = DocKey(docs[j]) => i = j

CycleStore == store[1].functions = FnList(<<"B">>) /\ store[2].functions = FnList(<<"A">>)

CycleCase == CycleStore /\ retrieved = <<Doc(None, "A")>> /\ max_depth = 3

\* C1: on any stored graph (cyclic ones included), for any seeds and any
\* max_depth, the expansion loop runs at most max_depth rounds with exactly one
\* batched store query per round, the resulting code set has at most one
\* document per chunk id, and the cycle A <-> B seeded with A at max_depth 3
\* gives exactly {A, B}.
C1_BoundedRoundsNoDuplicates ==
    /\ current_depth <= max_depth
    /\ Len(fetch_log) <= max_depth
    /\ gpc \in {"loop", "expanded", "responded"} => Len(fetch_log) = current_depth
    /\ gpc = "raised" => Len(fetch_log) = current_depth + 1
    /\ ExpansionRan => DistinctKeys(CodeDocs(docs_by_category))
    /\ (ExpansionRan /\ CycleCase) =>
           /\ CodeKeys = {"A", "B"}
           /\ Len(CodeDocs(docs_by_category)) = 2

\* the cycle A <-> B has been expanded from A with max_depth 3
C1_Witness ==
    /\ ExpansionRan
    /\ CycleCase
    /\ fetch_log = <<(<<"A">>), (<<"B">>)>>
    /\ CodeKeys = {"A", "B"}

\* C2 (as claimed): expansion with max_depth = d adds exactly the stored
\* chunks that lie within d dependency edges of a seed.
C2_AddsWithinDepthEdges ==
    ExpansionRan =>
        CodeKeys \ SeedKeys = (WithinEdges(SeedKeys, max_depth) \cap StoredIdSet) \ SeedKeys

ProcessedKeys == {processed_docs[i].key : i \in 1..Len(processed_docs)}

\* the frontier that followed the k-th fetch
FrontierAfter(k) ==
    IF k < Len(fetch_log) THEN Range(fetch_log[k + 1]) ELSE Range(ids_to_check)

\* C15: an id for which the store holds no chunk is skipped: no document
\* is synthesised for it, it adds nothing to the next frontier, and the
\* other ids of its round are handled as usual (each stored one has a
\* document, and its unseen dependencies are in the next frontier).
C15_MissingIdsSkipped ==
    gpc \in {"loop", "expanded", "responded"} =>
        /\ \A i \in 1..Len(processed_docs) :
              processed_docs[i].doc.is_dependency => processed_docs[i].key \in StoredIdSet
        /\ \A k \in 1..Len(fetch_log) :
              /\ Range(fetch_log[k]) \cap StoredIdSet \subseteq ProcessedKeys
              /\ FrontierAfter(k) \subseteq Successors(Range(fetch_log[k]))
              /\ Successors(Range(fetch_log[k])) \ ProcessedKeys \subseteq FrontierAfter(k)

\* a round was handed an id the store does not hold, listed before the
\* stored chunk C; C was added and the missing id was not
C15_Witness ==
    /\ gpc = "expanded"
    /\ Len(fetch_log) >= 2
    /\ fetch_log[2] = <<GhostId, "C">>
    /\ "C" \in ProcessedKeys
    /\ GhostId \notin ProcessedKeys

\* C16 (as claimed): on the chat path, when the answer is generated, the
\* text of every stored dependency of a retrieved code chunk is part of the
\* assembled context.
C16_ChatContextHasDependencies ==
    (via_chat /\ gpc = "responded") =>
        \A id \in Successors(SeedKeys) \cap StoredIdSet :
            ChunkById(id).chunk \in Range(context)

\* C17: without a store handle _expand_dependencies returns at once, without
\* raising, and leaves every category of the result set as it was.
C17_NoHandleLeavesResultSet ==
    [][(gpc = "retrieved" /\ ~mongo_db) =>
           (gpc' = "expanded" /\ docs_by_category' = docs_by_category)]_vars

\* the expansion returned without a handle although a retrieved chunk has a
\* stored dependency
C17_Witness ==
    /\ ~mongo_db
    /\ gpc = "expanded"
    /\ Successors(SeedKeys) \cap StoredIdSet # {}
    /\ CodeDocs(docs_by_category) = retrieved
    /\ docs_by_category["documentation"] = OtherDocs

\* C18 (as claimed): no chunk id is fetched, or has its adjacency expanded,
\* in more than one round of an expansion.
C18_NoIdFetchedTwice ==
    \A j, k \in 1..Len(fetch_log) :
        j < k => Range(fetch_log[j]) \cap Range(fetch_log[k]) = {}

\* every entry of processed_docs is a retrieved document under its own key,
\* or a document built from the stored chunk and marked as a dependency
ProcessedDocsWellFormed ==
    \A i \in 1..Len(processed_docs) :
        LET e == processed_docs[i]
        IN  IF e.key \in SeedKeys
            THEN /\ e.doc \in Range(retrieved)
                 /\ DocKey(e.doc) = e.key
                 /\ ~e.doc.is_dependency
            ELSE /\ e.key \in StoredIdSet
                 /\ e.doc = [text |-> ChunkById(e.key).chunk, original_chunkId |-> e.key,
                             chunkId |-> None, is_dependency |-> TRUE]

\* C23: expansion never writes to the store; a document it adds is built
\* from the fetched chunk and marked is_dependency, and a retrieved document
\* is kept as retrieved, never replaced by or marked as a dependency.
C23_ReadOnlyAndMarked ==
    [][/\ store' = store
       /\ ProcessedDocsWellFormed'
       /\ gpc' = "expanded" /\ ~SkipExpansion => CodeDocs(docs_by_category') = Values(processed_docs')
      ]_vars

\* the expansion of seed A has added B, which lists A as its dependency
C23_Witness ==
    /\ ExpansionRan
    /\ retrieved = <<Doc(None, "A")>>
    /\ store[1].functions = FnList(<<"B">>)
    /\ store[2].functions = FnList(<<"A">>)
    /\ CodeDocs(docs_by_category) = <<Doc(None, "A"), NewDoc("B", store[2])>>

\* C24: expansion changes only the "code" entry of the result set; every
\* other category has the same document list before and after.
C24_OtherCategoriesUntouched ==
    [][gpc # "start" =>
          \A c \in (DOMAIN docs_by_category \cup DOMAIN docs_by_category') \ {"code"} :
              /\ c \in DOMAIN docs_by_category
              /\ c \in DOMAIN docs_by_category'
              /\ docs_by_category'[c] = docs_by_category[c]]_vars

\* the code entry was enlarged and the documentation entry is as retrieved
C24_Witness ==
    /\ ExpansionRan
    /\ Len(CodeDocs(docs_by_category)) > Len(retrieved)
    /\ docs_by_category["documentation"] = OtherDocs

\* stored ids reachable from the seeds through stored chunks
ReachableFromSeeds == WithinEdges(SeedKeys, Len(StoredIds) + 1) \cap StoredIdSet

\* C26: when the expansion ends with an empty frontier, the code set holds
\* every stored chunk reachable from a seed through stored chunks.
C26_EmptyFrontierMeansComplete ==
    (ExpansionRan /\ ids_to_check = <<>>) => ReachableFromSeeds \subseteq CodeKeys

\* the expansion of seed A ended below the depth bound with an empty
\* frontier, after adding B and C
C26_Witness ==
    /\ ExpansionRan
    /\ ids_to_check = <<>>
    /\ current_depth < max_depth
    /\ SeedKeys = {"A"}
    /\ ReachableFromSeeds = {"A", "B", "C"}
    /\ CodeKeys = {"A", "B", "C"}

\* C27 (as claimed): every retrieved code document is still in the code set
\* after the expansion.
C27_RetrievedDocsKept ==
    ExpansionRan =>
        \A i \in 1..Len(retrieved) : retrieved[i] \in Range(CodeDocs(docs_by_category))

\* C28: with max_depth = d the store is queried at most d times, the first
\* query asks for the seeds themselves, and every document added lies at
\* most d - 1 edges from a seed; with max_depth = 0 there is no query and no
\* document is added.
C28_DepthMinusOne ==
    /\ Len(fetch_log) <= max_depth
    /\ fetch_log # <<>> => Range(fetch_log[1]) = SeedKeys
    /\ ExpansionRan =>
          CodeKeys \ SeedKeys \subseteq
              (IF max_depth = 0 THEN {} ELSE WithinEdges(SeedKeys, max_depth - 1))

\* on the chain A -> B -> C seeded with A, max_depth 2 took two queries and
\* added B but not C
C28_Witness ==
    /\ ExpansionRan
    /\ max_depth = 2
    /\ retrieved = <<Doc(None, "A")>>
    /\ store[1].functions = FnList(<<"B">>)
    /\ store[2].functions = FnList(<<"C">>)
    /\ fetch_log = <<(<<"A">>), (<<"B">>)>>
    /\ CodeKeys = {"A", "B"}

\* C7 (as claimed): a store error during a fetch of the expansion never
\* reaches the caller of generate_response; the code set stays the retrieved
\* one and the answer is generated from it.
C7_FetchErrorNotRaised ==
    via_generate => gpc # "raised"

(***************************************************************************)
(* Properties of the batch resolver                                        *)
(***************************************************************************)
LogIds == [i \in 1..Len(run_log) |-> run_log[i].chunkId]

TimesProcessed(id) == Cardinality({i \in 1..Len(run_log) : run_log[i].chunkId = id})

RECURSIVE PageIds(_)
PageIds(pages) ==
    IF pages = <<>> THEN <<>>
    ELSE Head(pages) \o PageIds(Tail(pages))

OkEntries == {i \in 1..Len(run_log) : run_log[i].outcome = "ok"}
ErrorEntries == {i \in 1..Len(run_log) : run_log[i].outcome = "error"}

\* chunkIds whose stored functions value differs from the one at the start
ChangedIds ==
    {store[i].chunkId :
        i \in {j \in 1..Len(store) :
                  j <= Len(start_functions) /\ store[j].functions # start_functions[j]}}

\* those among them that now carry a non-empty list
UpdatedIds == {id \in ChangedIds : ChunkById(id).functions.ids # <<>>}

RECURSIVE SumOfLengths(_)
SumOfLengths(S) ==
    IF S = {} THEN 0
    ELSE LET id == CHOOSE x \in S : TRUE
         IN  Len(ChunkById(id).functions.ids) + SumOfLengths(S \ {id})

\* C3 (as claimed): the second of two runs with force = False in succession
\* selects and processes no chunk.
C3_SecondRunProcessesNothing ==
    (rpc = "returned" /\ run = 2 /\ ~force) => stats.total_processed = 0

\* C4 (as claimed): every chunk that matches the selection when a run starts
\* is processed exactly once before the run returns.
C4_EveryMatchProcessedOnce ==
    rpc = "returned" => \A id \in initial_match : TimesProcessed(id) = 1

\* C6: an exception while resolving one chunk is caught: the rest of the
\* page and the later pages are still read and processed, the run returns
\* when the paging loop ends, and the failed chunk counts as processed but
\* not as updated.
C6_FailureDoesNotAbort ==
    /\ stats.total_processed = Len(run_log)
    /\ stats.total_updated <= Cardinality(OkEntries)
    /\ rpc \in {"paging", "returned"} => LogIds = PageIds(pages_log)
    /\ (rpc = "returned" /\ run > 0) =>
           /\ skip = Len(run_log)
           /\ skip >= total_chunks \/ FindPage(store, force, skip, batch_size) = <<>>

\* a run has returned in which the first chunk failed, the second chunk of
\* the same page and the chunk of the next page were processed
C6_Witness ==
    /\ rpc = "returned"
    /\ Len(pages_log) = 2
    /\ Len(pages_log[1]) = 2
    /\ Len(run_log) = 3
    /\ run_log[1].outcome = "error"
    /\ run_log[2].outcome = "ok"
    /\ run_log[3].outcome = "ok"
    /\ stats.total_processed = 3
    /\ stats.total_updated >= 1

ExampleXY ==
    /\ store[1].chunk = MainText /\ store[1].source = "code"
    /\ store[2].chunk = HelperText /\ store[2].source = "code"
    /\ store[3].source # "code" \/ DefinitionsOf(store[3].chunk) \cap {"main", "helper"} = {}
    /\ {"X", "Y"} \subseteq initial_match
    /\ batch_size = DefaultBatchSize
    /\ ErrorEntries = {}

\* C8: once a run has processed a chunk without error, the chunk's stored
\* functions is the list resolved for it, the empty list included; for
\* X = (= (main) (helper 1)) and Y = (= (helper $n) (+ $n 1)) a run with the
\* default batch size leaves X.functions = [Y] and Y.functions = [].
C8_StoredFunctionsAreResolved ==
    /\ \A i \in OkEntries :
          LET c == ChunkById(run_log[i].chunkId)
          IN  /\ c.functions.kind = "list"
              /\ \E calls \in CallOrders(c) :
                    c.functions.ids = resolve_chunk_dependencies(c, store, calls)
    /\ (rpc = "returned" /\ ExampleXY) =>
          /\ store[1].functions = FnList(<<"Y">>)
          /\ store[2].functions = FnList(<<>>)

\* the example run has returned and wrote the empty list to Y
C8_Witness ==
    /\ rpc = "returned"
    /\ ExampleXY
    /\ start_functions[1] = FnAbsent
    /\ start_functions[2] = FnAbsent
    /\ store[1].functions = FnList(<<"Y">>)
    /\ store[2].functions = FnList(<<>>)

\* C9 (as claimed): total_updated is the number of chunks whose stored
\* functions value changed during the run, total_dependencies_added the sum
\* of the lengths of the lists written to them.
C9_UpdatedCountsEveryChange ==
    run > 0 =>
        /\ stats.total_processed = Len(run_log)
        /\ stats.total_updated = Cardinality(ChangedIds)
        /\ stats.total_dependencies_added = SumOfLengths(ChangedIds)

\* C9 (amended): total_processed is the number of chunks examined,
\* total_updated the number of chunks whose stored functions value changed
\* to a non-empty dependency list during the run, total_dependencies_added
\* the sum of the lengths of those lists.
C9_UpdatedCountsNonEmptyChanges ==
    run > 0 =>
        /\ stats.total_processed = Len(run_log)
        /\ stats.total_updated = Cardinality(UpdatedIds)
        /\ stats.total_dependencies_added = SumOfLengths(UpdatedIds)

\* a run has returned that gave one chunk a non-empty list and another
\* chunk, which had no functions field, the empty list
C9_Witness ==
    /\ rpc = "returned"
    /\ stats.total_updated >= 1
    /\ stats.total_dependencies_added >= 2
    /\ ChangedIds # UpdatedIds

\* the step appended an entry for a chunk whose resolution raised
ErrorStep ==
    /\ Len(run_log') = Len(run_log) + 1
    /\ run_log'[Len(run_log')].outcome = "error"

\* C21: a chunk whose resolution raises keeps the functions value it had
\* (an absent field stays absent), and the failure changes no stored field
\* of any chunk.
C21_FailureWritesNothing ==
    [][ErrorStep => store' = store]_vars

\* a run has returned in which the first chunk, which had no functions
\* field, failed and still has none, while a later chunk was written
C21_Witness ==
    /\ rpc = "returned"
    /\ Len(run_log) >= 2
    /\ run_log[1].outcome = "error"
    /\ TimesProcessed(run_log[1].chunkId) = 1
    /\ ChunkById(run_log[1].chunkId).functions = FnAbsent
    /\ ChangedIds # {}

\* position in the store of the chunk with this id
IndexOf(id) == CHOOSE i \in 1..Len(store) : store[i].chunkId = id

\* the chunk was unresolved when the run started
UnresolvedAtStart(i) ==
    \/ start_functions[i].kind \in {"absent", "null"}
    \/ start_functions[i] = FnList(<<>>)

CodeIds == {store[i].chunkId : i \in {j \in 1..Len(store) : store[j].source = "code"}}

\* C22: a run with force = False processes and writes only code chunks whose
\* functions is absent, null or empty; chunks with a non-empty list and
\* chunks of another source are neither processed nor modified.  A run with
\* force = True selects every code chunk.
C22_OnlySelectedTouched ==
    run > 0 =>
        /\ \A k \in 1..Len(run_log) :
              /\ run_log[k].chunkId \in CodeIds
              /\ ~force => UnresolvedAtStart(IndexOf(run_log[k].chunkId))
        /\ \A i \in 1..Len(store) :
              (store[i].source # "code" \/ (~force /\ ~UnresolvedAtStart(i)))
                  => store[i].functions = start_functions[i]
        /\ force => total_chunks = Cardinality(CodeIds)
        /\ (force /\ rpc = "returned") => Range(LogIds) = CodeIds

\* a run with force = False has returned that wrote a chunk and passed over
\* a code chunk with a non-empty list and a documentation chunk
C22_Witness ==
    /\ rpc = "returned"
    /\ ~force
    /\ ChangedIds # {}
    /\ \E i, j \in 1..Len(store) :
          /\ store[i].source = "code"
          /\ start_functions[i] = FnList(<<"Y">>)
          /\ store[i].chunkId \notin Range(LogIds)
          /\ store[j].source = "documentation"
          /\ store[j].chunkId \notin Range(LogIds)

CountersOrdered ==
    /\ stats.total_updated <= stats.total_processed
    /\ stats.total_processed <= total_chunks
    /\ stats.total_dependencies_added >= stats.total_updated

\* C29: throughout a run total_updated <= total_processed <= the count of
\* the selection at the start, total_dependencies_added >= total_updated,
\* and the paging loop terminates for every batch size.
C29_CountersOrderedAndTerminates ==
    /\ []CountersOrdered
    /\ (rpc \in {"paging", "processing"}) ~> (rpc = "returned")

\* a run over three selected chunks, read one per page, has returned with
\* one chunk updated
C29_Witness ==
    /\ rpc = "returned"
    /\ batch_size = 1
    /\ total_chunks = 3
    /\ Len(pages_log) >= 2
    /\ stats.total_updated >= 1
    /\ stats.total_processed > stats.total_updated

(***************************************************************************)
(* Properties of the scoped lookup                                         *)
(***************************************************************************)
InScopeOf(t, c) ==
    /\ t.source = "code"
    /\ t.project = c.project
    /\ t.repo = c.repo
    /\ c.section # <<>> => t.section = c.section
    /\ c.file # <<>> => t.file = c.file

\* C5: every chunkId returned by resolve_chunk_dependencies belongs to a
\* code chunk of the same project and repo as the resolving chunk, and of
\* the same section / file when the resolving chunk's section / file is
\* non-empty; a definition under another project is never returned.
C5_DependenciesInScope ==
    resolving # None =>
        \A d \in Range(dependency_ids) :
            /\ d \in StoredIdSet
            /\ InScopeOf(ChunkById(d), ChunkById(resolving))

\* X called helper, which Y defines in X's scope and Z under another project
C5_Witness ==
    /\ resolving = "X"
    /\ store[2].chunk = HelperText
    /\ InScopeOf(store[2], store[1])
    /\ store[1].file # <<>>
    /\ store[3].source = "code"
    /\ store[3].project # store[1].project
    /\ store[3].repo = store[1].repo
    /\ store[3].section = store[1].section
    /\ store[3].file = store[1].file
    /\ dependency_ids = <<"Y">>

\* the other code chunks in the scope of chunk r that define a name r calls
DefinersInScope(r) ==
    {c.chunkId : c \in {t \in Range(store) :
                          /\ t.chunkId # r.chunkId
                          /\ InScopeOf(t, r)
                          /\ DefinitionsOf(t.chunk) \cap CallsOf(r.chunk) # {}}}

\* C19: for a chunk with non-empty text the returned list holds exactly the
\* ids of the other code chunks in its scope whose extracted definitions
\* include one of its extracted calls.
C19_ExactlyTheDefiners ==
    resolving # None =>
        (ChunkById(resolving).chunk # <<>> =>
            Range(dependency_ids) = DefinersInScope(ChunkById(resolving)))

\* X was resolved with both Y and Z defining helper in its scope
C19_Witness ==
    /\ resolving = "X"
    /\ store[2].chunk = HelperText
    /\ store[3].chunk = HelperText
    /\ InScopeOf(store[2], store[1])
    /\ InScopeOf(store[3], store[1])
    /\ Range(dependency_ids) = {"Y", "Z"}

\* C20: the returned list never holds the resolving chunk's own id and never
\* holds an id twice.
C20_NoSelfNoRepeat ==
    resolving # None =>
        /\ resolving \notin Range(dependency_ids)
        /\ \A i, j \in 1..Len(dependency_ids) :
              dependency_ids[i] = dependency_ids[j] => i = j

\* X, which calls main and helper and defines main itself, was resolved
\* with Y defining both names in its scope
C20_Witness ==
    /\ resolving = "X"
    /\ "main" \in DefinitionsOf(store[1].chunk) \cap CallsOf(store[1].chunk)
    /\ store[2].chunk = BothText
    /\ InScopeOf(store[2], store[1])
    /\ {"main", "helper"} \subseteq DefinitionsOf(store[2].chunk) \cap CallsOf(store[1].chunk)
    /\ "Y" \in Range(dependency_ids)

(***************************************************************************)
(* Properties of two interleaved calls                                     *)
(***************************************************************************)
\* what a resolution of chunk c on its own yields, from texts and scope
SequentialResult(c) ==
    IF c.chunk = <<>> THEN {} ELSE DefinersInScope(c)

WrittenValuesAreSequential ==
    \A i \in 1..Len(store) :
        store'[i].functions # store[i].functions =>
            /\ store'[i].functions.kind = "list"
            /\ Range(store'[i].functions.ids) = SequentialResult(store[i])

TextsAndScopeKept ==
    \A i \in 1..Len(store) :
        [store'[i] EXCEPT !.functions = FnAbsent] = [store[i] EXCEPT !.functions = FnAbsent]

\* C25: with two calls interleaved in any order, every functions value that
\* a step writes is, as a set of ids, what a resolution of that chunk on its
\* own gives from the chunk texts and scopes, whatever functions fields the
\* store holds at that moment; texts and scopes are left as they were.
C25_InterleavedWritesAreSequential ==
    [][WrittenValuesAreSequential /\ TextsAndScopeKept]_vars

\* both calls have written chunk X, and X now lists its definer Y
C25_Witness ==
    /\ \E k \in 1..Len(run_log) : run_log[k].chunkId = "X" /\ run_log[k].outcome = "ok"
    /\ "X" \in Range(second.log)
    /\ store[1].chunk = MainText
    /\ DefinersInScope(store[1]) # {}
    /\ store[1].functions.kind = "list"
    /\ Range(store[1].functions.ids) = DefinersInScope(store[1])

====
